---- MODULE Spec2Model ----
(***************************************************************************)
(* The offline action queue and its drain (OfflineService), the            *)
(* reachability listeners that trigger the drain, and the facade calls     *)
(* that enqueue actions; and the second queue and drain of the app,        *)
(* NetworkService over the stored offline_queue.  The two services share   *)
(* no state (each has its own flags and its own AsyncStorage keys), so a   *)
(* behaviour of this module follows one of them: service says which.       *)
(*                                                                         *)
(* JavaScript runs one callback at a time: an action of this module is the *)
(* code that runs between two suspension points (await).  A request to     *)
(* AsyncStorage takes effect when it is issued (the store serves requests  *)
(* in the order they are issued); the code after the await runs in a later *)
(* step.                                                                   *)
(***************************************************************************)
EXTENDS Integers, Sequences, FiniteSets, TLC

\* ---------------------------------------------------------------- bounds
MaxActions == 2
MaxTime == 4     \* the clock runs from 1 to MaxTime
MaxTtl == 2      \* time-to-live values given to cacheData
MaxXp == 5       \* experience values and thresholds given to calculateLevel
MaxLevels == 3   \* longest level table given to calculateLevel
MaxCalls == 3    \* calls of ledger operations in one behaviour
MaxPosts == 2    \* posts of the user in the posts collection
MaxLikes == 1    \* likes on the user's posts
MaxAge == 2      \* age of the account in days
MaxQueued == 3   \* typed actions enqueued in one behaviour
MaxListeners == 3  \* network listeners that register
MaxDay == 2      \* calendar days after the day of registration
MaxLogins == 3   \* fetchUserData calls in one behaviour
TicksPerDay == 2 \* instants of the clock within one calendar day

\* ------------------------------------------------------------- constants
FacadeOps == {"createPost", "likePost", "createComment", "sendDirectMessage"}
SyncSlots == {"s1", "s2"}
FacadeSlots == {"f1"}

\* processOfflineAction makes one remote call for each of the four types the
\* facade creates, and the drain treats them alike: a queued action is
\* modelled by its id (ids grow in the order the actions are created).
NoAction == [id |-> 0]

VARIABLES
  service,         \* the service this behaviour follows
  isOnline,        \* OfflineService.isOnline / NetworkService.isConnected
  syncInProgress,  \* the service's syncInProgress
  syncQueue,       \* OfflineService.syncQueue
  storage,         \* AsyncStorage['offline_actions'] (the data field) /
                   \* AsyncStorage['offline_queue']
  lastSync,        \* AsyncStorage['last_sync_time'] / ['last_sync']: "never"
                   \* written, or "written"
  spc, snap, idx, failed, plog,   \* one record per running syncOfflineActions call;
                   \* plog: the dispatches the remote service received in this pass
  delivered,       \* ids of the queued actions the remote service has applied
  fpc, fop, fact, fstored, fremote, fres,   \* one record per running facade call:
                   \* fremote: how the direct remote call went ("offline": not tried)
  nextId,          \* ids are made from Date.now(): a counter
  loadPc, loadRead,                \* the constructor's un-awaited loadOfflineActions
  lastCall,        \* the syncOfflineActions call made by the last step, if any:
                   \* "started" a pass, returned because "busy", or "skipped"
  lastEvent,       \* the reachability event handled by the last step, if any:
                   \* an "edge" (the event before it reported offline, this one
                   \* online) or a "nonedge"
  timerPending,    \* OfflineProvider's setTimeout(syncOfflineActions, 1000)
  sread,           \* per NetworkService pass: what removeFromOfflineQueue's
                   \* getItem read
  apc, aread,      \* the running addToOfflineQueue call and what its getItem read
  fetchPending     \* NetworkService's NetInfo.fetch() has not resolved yet

VARIABLES
  now,             \* Date.now()
  centry,          \* AsyncStorage[key] of offlineStorage's cache, one key
  gpc, gread,      \* the running getCachedData call and what its getItem read
  cres             \* what the last getCachedData call returned, and when

VARIABLES
  ltable,          \* the level table calculateLevel is given
  lxp, llevel,     \* an experience value and the level calculateLevel derives
  lprev,           \* the experience value before the last gain
  lup              \* leveledUp as reported for the last gain

VARIABLES
  doc,             \* the user's document in the users collection
  auth,            \* the posts collection: the user's posts and the likes on them
  accountAge,      \* days since the account was created
  view,            \* the User object the screens hold (React state)
  proc,            \* the running ledger operations, with their local variables
  credited,        \* per achievement: how often its xpReward was added to the xp
  calls,           \* ledger operations called so far
  lastRun,         \* the User object of the last checkAndUnlockAchievements call
                   \* made on its own, if no other operation was called since
  raised,          \* the achievements whose threshold a counter reached when
                   \* getUserDataWithCounts last corrected the stored counters
  retroAt          \* the counters the last written retroactive xp was computed from
                   \* (a set: empty before the first one)

VARIABLES
  version,         \* whose processOfflineAction drains the typed queue
  pqueue,          \* the queue of typed offline actions
  posts,           \* the remote posts collection
  placeholders,    \* the offline_<timestamp> posts the facade put in the cache
  ppc, psnap, pidx, pfailed,   \* the running drain pass over the typed queue
  outcomes,        \* what each dispatch of the current or last pass did
  made             \* typed actions enqueued so far

VARIABLES
  listeners,       \* NetworkService.listeners
  isConnected,     \* NetworkService.isConnected as the listeners' callback sets it
  notified         \* what the last step, if a reachability event, did: the
                   \* listeners it called, in order, whether it was a
                   \* disconnected-to-connected edge, and whether it called
                   \* syncOfflineActions

VARIABLES
  clock,           \* new Date(): the current instant
  login,           \* the user document's lastLoginDate and totalDaysActive
  lcall,           \* the running fetchUserData calls, with their user snapshot
  awards,          \* per day: daily_login awards made by calls of that day
  logins           \* fetchUserData calls made so far

cacheVars == <<now, centry, gpc, gread, cres>>
loginVars == <<clock, login, lcall, awards, logins>>
listenerVars == <<listeners, isConnected, notified>>
dispatchVars == <<version, pqueue, posts, placeholders, ppc, psnap, pidx, pfailed,
                 outcomes, made>>
moreVars == <<dispatchVars, listenerVars, loginVars>>
levelVars == <<ltable, lxp, llevel, lprev, lup>>
ledgerVars == <<doc, auth, accountAge, view, proc, credited, calls, lastRun, raised,
               retroAt>>
auxVars == <<cacheVars, levelVars, ledgerVars, moreVars>>

vars == <<service, isOnline, syncInProgress, syncQueue, storage, lastSync,
          spc, snap, idx, failed, plog, delivered,
          fpc, fop, fact, fstored, fremote, fres, nextId, loadPc, loadRead,
          lastCall, lastEvent, timerPending, sread, apc, aread, fetchPending,
          auxVars>>

syncVars == <<spc, snap, idx, failed, plog>>
netVars == <<timerPending>>
NoCall == "none"
facadeVars == <<fpc, fop, fact, fstored, fremote, fres>>
loadVars == <<loadPc, loadRead>>
addVars == <<apc, aread>>
Services == {"OfflineService", "NetworkService"}

NoEvent == "none"

\* ------------------------------------------------------------ the cache
Data == {"d1", "d2"}
NoEntry == [data |-> "", timestamp |-> 0, expiration |-> 0]
NoResult == [kind |-> "none", data |-> "", expiration |-> 0, at |-> 0]

CacheInit ==
  /\ now = 1
  /\ centry = NoEntry
  /\ gpc = "idle"
  /\ gread = NoEntry
  /\ cres = NoResult

\* ------------------------------------------------------ calculateLevel
\* Mutant: the threshold must be exceeded.
LevelReachedStrict(xp, def) == xp > def.xpRequired

\* xp >= LEVEL_DEFINITIONS[i].xpRequired
LevelReached(xp, def) == xp >= def.xpRequired

\* Mutant: the comparison is turned around.
LevelTestFlipped(xp, def) == xp <= def.xpRequired

\* The test of the loop in calculateLevel.
LevelTest(xp, def) == LevelReached(xp, def)

\* for (let i = length - 1; i >= 0; i--) ... return 1 (indexes from 1 here)
RECURSIVE LevelFrom(_, _, _)
LevelFrom(xp, table, i) ==
  IF i < 1 THEN 1
  ELSE IF LevelTest(xp, table[i]) THEN table[i].level
       ELSE LevelFrom(xp, table, i - 1)

\* calculateLevel over a given table
CalculateLevelOf(xp, table) == LevelFrom(xp, table, Len(table))

\* Mutant: an unchanged level counts as a level-up.
LeveledUpOrSame(oldLevel, newLevel) == newLevel >= oldLevel

\* newLevel > oldLevel
LeveledUp(oldLevel, newLevel) == newLevel > oldLevel

\* checkLevelUp(oldXP, newXP) over a given table
CheckLevelUpOf(oldXP, newXP, table) ==
  LET oldLevel == CalculateLevelOf(oldXP, table)
      newLevel == CalculateLevelOf(newXP, table)
  IN LeveledUp(oldLevel, newLevel)

\* The tables calculateLevel is checked on: levels 1..n in order, thresholds
\* ascending, the first threshold 0.
Thresholds == UNION {[1..n -> 0..MaxXp] : n \in 1..MaxLevels}
LevelTables ==
  {[i \in 1..Len(th) |-> [level |-> i, xpRequired |-> th[i]]] :
     th \in {h \in Thresholds :
               /\ h[1] = 0
               /\ \A i \in 1..(Len(h) - 1) : h[i] <= h[i + 1]}}

\* calculateLevel has been applied to 0 on the one-level table.
LevelIdle ==
  /\ ltable = <<[level |-> 1, xpRequired |-> 0]>>
  /\ lxp = 0
  /\ llevel = 1
  /\ lprev = 0
  /\ lup = FALSE

LevelInit ==
  /\ ltable \in LevelTables
  /\ lxp \in 0..MaxXp
  /\ llevel = CalculateLevelOf(lxp, ltable)
  /\ lprev = lxp
  /\ lup = FALSE

\* ----------------------------------------------------------- the ledger
\* The level table, the achievement catalog and the rewards.
LEVEL_DEFINITIONS ==
  <<[level |-> 1, xpRequired |-> 0], [level |-> 2, xpRequired |-> 50],
    [level |-> 3, xpRequired |-> 150]>>

ACHIEVEMENT_DEFINITIONS ==
  <<[id |-> "posts_2", type |-> "posts", count |-> 2, xpReward |-> 50],
    [id |-> "likes_1", type |-> "likes", count |-> 1, xpReward |-> 100]>>

XP_REWARDS ==
  [create_post |-> 10, receive_like_post |-> 5, receive_comment |-> 5,
   add_friend |-> 25, daily_login |-> 15]

AchIds == {ACHIEVEMENT_DEFINITIONS[i].id : i \in 1..Len(ACHIEVEMENT_DEFINITIONS)}
AchDef(id) ==
  ACHIEVEMENT_DEFINITIONS[CHOOSE i \in 1..Len(ACHIEVEMENT_DEFINITIONS) :
                             ACHIEVEMENT_DEFINITIONS[i].id = id]

\* calculateLevel(xp)
CalculateLevel(xp) == CalculateLevelOf(xp, LEVEL_DEFINITIONS)

\* addUserXP's own formula: Math.floor(newXP / 1000) + 1
LevelStep == 1000
FloorLevel(xp) == (xp \div LevelStep) + 1

\* The counter an achievement's requirement looks at.
CounterOf(user, type) ==
  IF type = "posts" THEN user.totalPosts ELSE user.totalLikes

\* The user's counter meets the requirement of the achievement.
Meets(user, id) == CounterOf(user, AchDef(id).type) >= AchDef(id).count

\* checkAchievementsForUser(user): the catalog's achievements the user object
\* does not list and whose requirement its counters meet.
CheckAchievementsForUser(user) ==
  {id \in AchIds : /\ id \notin user.achievements
                   /\ CounterOf(user, AchDef(id).type) >= AchDef(id).count}

\* newAchievementIds.reduce(... total + achDef.xpReward ...)
RECURSIVE TotalAchievementXP(_)
TotalAchievementXP(ids) ==
  IF ids = {} THEN 0
  ELSE LET id == CHOOSE x \in ids : TRUE
       IN AchDef(id).xpReward + TotalAchievementXP(ids \ {id})

Min(a, b) == IF a < b THEN a ELSE b
Max(a, b) == IF a > b THEN a ELSE b

\* calculateRetroactiveXP(user); age is the account's age in days.  The user
\* of this model has no friends, no comments and no totalDaysActive.
CalculateRetroactiveXP(user, age) ==
  LET postsXP == user.totalPosts * XP_REWARDS.create_post
      likesXP == user.totalLikes * XP_REWARDS.receive_like_post
      loginDays == IF age > 0
                   THEN Min(age, Min(age, 30))
                   ELSE Max(1, Min(user.totalPosts, 30))
  IN Max(0, postsXP + likesXP + loginDays * XP_REWARDS.daily_login)

NoUser == [xp |-> 0, level |-> 0, achievements |-> {}, totalPosts |-> 0,
           totalLikes |-> 0]
NoCounts == [posts |-> 0, likes |-> 0]
IdleProc == [op |-> "none", pc |-> "idle", user |-> NoUser, read |-> 0,
             amount |-> 0, level |-> 0, ids |-> {}, counted |-> NoCounts]
Procs == {"p1", "p2"}

\* The User object read from a document: the ids of its achievements array.
UserOf(d) ==
  [xp |-> d.xp, level |-> d.level,
   achievements |-> {id \in AchIds : d.achievements[id] > 0},
   totalPosts |-> d.totalPosts, totalLikes |-> d.totalLikes]

NewDoc ==
  [xp |-> 0, level |-> 1, achievements |-> [id \in AchIds |-> 0],
   totalPosts |-> 0, totalLikes |-> 0, retroactiveXPApplied |-> FALSE]

LedgerInit ==
  /\ doc = NewDoc
  /\ auth = [posts |-> 0, likes |-> 0]
  /\ accountAge \in {0, 1}
  /\ view = UserOf(NewDoc)
  /\ proc = [p \in Procs |-> IdleProc]
  /\ credited = [id \in AchIds |-> 0]
  /\ lastRun = NoUser
  /\ raised = {}
  /\ retroAt = {}
  /\ calls = 0

\* The ledger before any of its operations has run, for an account created
\* today.
LedgerIdle == LedgerInit /\ accountAge = 0

\* ------------------------------------------------- typed offline actions
\* The two drains: OfflineService (part_012, remote calls of postsService) and
\* NetworkService (part_008, remote calls of firestore).
Versions == {"part_012", "part_008"}

\* The cases of the switch in processOfflineAction (CREATE_COMMENT, ADD_XP
\* are remote calls like the others and are left out).
Handled(v) ==
  IF v = "part_012" THEN {"CREATE_POST", "LIKE_POST", "SEND_MESSAGE"}
  ELSE {"CREATE_POST", "LIKE_POST", "UPDATE_PROFILE"}
ActionTypes == {"CREATE_POST", "LIKE_POST", "SEND_MESSAGE", "UPDATE_PROFILE"}

\* likePost on a post id that is not in the posts collection: postsService's
\* likePost throws 'Post not found', firestore's likePost does nothing.
LikeOfMissingPost(v) == IF v = "part_012" THEN "throw" ELSE "return"

\* Post ids: offline_<timestamp> made by the facade, and ids the server gives.
NoPost == <<"none", 0>>
OfflineId(n) == <<"offline", n>>
ServerId(n) == <<"server", n>>

\* The posts collection holds one post before anything is created.
InitialPosts == {[id |-> ServerId(0), origin |-> 0, liked |-> FALSE]}

DispatchInit ==
  /\ version \in Versions
  /\ pqueue = <<>>
  /\ posts = InitialPosts
  /\ placeholders = {}
  /\ ppc = "idle"
  /\ psnap = <<>>
  /\ pidx = 0
  /\ pfailed = <<>>
  /\ outcomes = <<>>
  /\ made = 0

DispatchIdle == DispatchInit /\ version = "part_012"

\* --------------------------------------------------- network listeners
NoEventYet == [event |-> FALSE, called |-> <<>>, edge |-> FALSE, synced |-> FALSE]

\* private listeners: NetworkListener[] = []; isConnected = true
ListenerInit ==
  /\ listeners = <<>>
  /\ isConnected = TRUE
  /\ notified = NoEventYet

\* ----------------------------------------------------------- daily login
Days == 0..MaxDay
Screens == {"c1", "c2"}
IdleCall == [pc |-> "idle", lastLoginDate |-> 0, day |-> 0]

\* The user registered today: RegisterScreen stores lastLoginDate: new Date().
LoginInit ==
  /\ clock = 0
  /\ login = [lastLoginDate |-> 0, totalDaysActive |-> 0]
  /\ lcall = [c \in Screens |-> IdleCall]
  /\ awards = [d \in Days |-> 0]
  /\ logins = 0

MoreIdle == DispatchIdle /\ ListenerInit /\ LoginInit

AuxInit == CacheInit /\ LevelIdle /\ LedgerIdle /\ MoreIdle

\* -------------------------------------------------------------- helpers
Ids(q) == {q[i].id : i \in 1..Len(q)}
Running == {s \in SyncSlots : spc[s] # "idle"}
FreeSlot == CHOOSE s \in SyncSlots : spc[s] = "idle"

QueueInit ==
  /\ service \in Services
  /\ isOnline = TRUE
  /\ syncInProgress = FALSE
  /\ syncQueue = <<>>
  /\ storage = <<>>
  /\ lastSync = "never"
  /\ spc = [s \in SyncSlots |-> "idle"]
  /\ snap = [s \in SyncSlots |-> <<>>]
  /\ idx = [s \in SyncSlots |-> 0]
  /\ failed = [s \in SyncSlots |-> <<>>]
  /\ plog = [s \in SyncSlots |-> <<>>]
  /\ delivered = {}
  /\ fpc = [p \in FacadeSlots |-> "idle"]
  /\ fop = [p \in FacadeSlots |-> "none"]
  /\ fact = [p \in FacadeSlots |-> NoAction]
  /\ fstored = [p \in FacadeSlots |-> FALSE]
  /\ fremote = [p \in FacadeSlots |-> "none"]
  /\ fres = [p \in FacadeSlots |-> "none"]
  /\ nextId = 1
  /\ loadPc = (IF service = "OfflineService" THEN "pending" ELSE "done")
  /\ loadRead = <<>>
  /\ lastCall = NoCall
  /\ lastEvent = NoEvent
  /\ timerPending = FALSE
  /\ sread = [s \in SyncSlots |-> <<>>]
  /\ apc = "idle"
  /\ aread = <<>>
  /\ fetchPending = (service = "NetworkService")

\* The state after construction.  The cache is empty, and nothing has touched
\* the ledger.
Init == QueueInit /\ AuxInit

\* lastCall and lastEvent describe the step that led to the current state: a
\* step that makes no syncOfflineActions call, or handles no reachability
\* event, clears them.
Quiet == lastCall' = NoCall /\ lastEvent' = NoEvent

\* A step of OfflineService (or of its callers) leaves NetworkService alone.
OfflineStep ==
  /\ service = "OfflineService"
  /\ UNCHANGED <<service, sread, addVars, fetchPending, auxVars>>

\* ------------------------------------------------------- AsyncStorage
\* cacheData: the write is inside try/catch; a failed setItem is logged and
\* the stored value stays what it was.  ok is whether setItem succeeded.
CacheData(old, new, ok) == IF ok THEN new ELSE old

\* ------------------------------------------------ syncOfflineActions
\* Mutant: the guard forgets the syncInProgress flag.
SyncGuardNoFlag(onl, inProgress, q) == onl /\ Len(q) # 0

\* The guard of syncOfflineActions; onl is this.isOnline when it is called.
SyncGuard(onl, inProgress, q) == onl /\ ~inProgress /\ Len(q) # 0

\* Mutant: the snapshot is walked from its end.
SnapshotReversed(q) == [i \in 1..Len(q) |-> q[Len(q) + 1 - i]]

\* const actionsToSync = [...this.syncQueue]
Snapshot(q) == q

\* Mutant: the loop breaks at the first failed dispatch.
LoopStopsOnFailure(ok, i, n) == ok /\ i < n

\* The for loop has no break: the next action is dispatched whether or not the
\* last dispatch failed.  i is the index just dispatched, n the snapshot's length.
LoopContinues(ok, i, n) == i < n

\* failedActions.push(action) in the catch block
PushFailed(f, a, ok) == IF ok THEN f ELSE Append(f, a)

\* The call of syncOfflineActions up to its first await.
SyncOfflineActions(onl) ==
  IF SyncGuard(onl, syncInProgress, syncQueue)
  THEN LET s == FreeSlot IN
       /\ \E t \in SyncSlots : spc[t] = "idle"
       /\ syncInProgress' = TRUE
       /\ spc' = [spc EXCEPT ![s] = "dispatch"]
       /\ snap' = [snap EXCEPT ![s] = Snapshot(syncQueue)]
       /\ idx' = [idx EXCEPT ![s] = 1]
       /\ failed' = [failed EXCEPT ![s] = <<>>]
       /\ plog' = [plog EXCEPT ![s] = <<>>]
       /\ lastCall' = "started"
  ELSE /\ UNCHANGED <<syncInProgress, syncVars>>
       /\ lastCall' = IF syncInProgress THEN "busy" ELSE "skipped"

\* await processOfflineAction(action) settles: the remote service has received
\* the dispatch and answered ok or not; the loop goes on to the next action or,
\* after the last one, replaces the queue by the failed actions and saves it.
DispatchDone(s, ok, stored) ==
  /\ OfflineStep
  /\ spc[s] = "dispatch"
  /\ LET a == snap[s][idx[s]]
         f == PushFailed(failed[s], a, ok)
     IN /\ plog' = [plog EXCEPT ![s] = Append(plog[s], [id |-> a.id, ok |-> ok])]
        /\ delivered' = (IF ok THEN delivered \cup {a.id} ELSE delivered)
        /\ failed' = [failed EXCEPT ![s] = f]
        /\ IF LoopContinues(ok, idx[s], Len(snap[s]))
           THEN /\ idx' = [idx EXCEPT ![s] = idx[s] + 1]
                /\ UNCHANGED <<spc, syncQueue, storage>>
           ELSE /\ syncQueue' = f
                /\ storage' = CacheData(storage, f, stored)
                /\ spc' = [spc EXCEPT ![s] = "saving"]
                /\ UNCHANGED idx
  /\ UNCHANGED <<isOnline, syncInProgress, lastSync, snap, facadeVars,
                 nextId, loadVars, netVars>>
  /\ Quiet

\* The call is over: its local variables are gone.
Return(s) ==
  /\ spc' = [spc EXCEPT ![s] = "idle"]
  /\ snap' = [snap EXCEPT ![s] = <<>>]
  /\ idx' = [idx EXCEPT ![s] = 0]
  /\ failed' = [failed EXCEPT ![s] = <<>>]
  /\ plog' = [plog EXCEPT ![s] = <<>>]

\* await this.saveOfflineActions() resumes: AsyncStorage.setItem(LAST_SYNC, ...)
\* is called outside any try block, so a failed write rejects the call and the
\* line that clears syncInProgress is never reached.
SyncSaved(s, ok) ==
  /\ OfflineStep
  /\ spc[s] = "saving"
  /\ IF ok
     THEN /\ lastSync' = "written"
          /\ spc' = [spc EXCEPT ![s] = "stamping"]
          /\ UNCHANGED <<snap, idx, failed, plog>>
     ELSE /\ Return(s)
          /\ UNCHANGED lastSync
  /\ UNCHANGED <<isOnline, syncInProgress, syncQueue, storage, delivered, facadeVars,
                 nextId, loadVars, netVars>>
  /\ Quiet

\* this.syncInProgress = false
SyncFinish(s) ==
  /\ OfflineStep
  /\ spc[s] = "stamping"
  /\ syncInProgress' = FALSE
  /\ Return(s)
  /\ UNCHANGED <<isOnline, syncQueue, storage, lastSync, delivered, facadeVars, nextId,
                 loadVars, netVars>>
  /\ Quiet

\* ------------------------------------------------ reachability events
\* wasOffline && this.isOnline in OfflineService's NetInfo listener
IsEdge(wasOffline, nowOnline) == wasOffline /\ nowOnline

\* OfflineProvider registers handleNetworkChange once, in an effect with no
\* dependencies: the handler keeps the isConnected of the first render, which
\* is the initial state of useState(true).
HandlerIsConnected == TRUE

\* connected && !isConnected in handleNetworkChange
ProviderSchedules(connected) == connected /\ ~HandlerIsConnected

\* What the callback reported last: the listener stores every reported value in
\* isOnline, and nothing else writes isOnline (before the first event it holds
\* the constructor's true, and no offline report has been made).
ReportedOffline == ~isOnline

\* One reachability event: NetInfo calls OfflineService's listener, then
\* OfflineProvider's handleNetworkChange.
NetEvent(c) ==
  LET wasOffline == ~isOnline
      trig == IsEdge(wasOffline, c)
      sched == ProviderSchedules(c)
  IN /\ OfflineStep
     /\ isOnline' = c
     /\ IF trig
        THEN SyncOfflineActions(c)
        ELSE /\ UNCHANGED <<syncInProgress, syncVars>>
             /\ lastCall' = NoCall
     /\ timerPending' = (timerPending \/ sched)
     /\ lastEvent' = (IF ReportedOffline /\ c THEN "edge" ELSE "nonedge")
     /\ UNCHANGED <<syncQueue, storage, lastSync, delivered, facadeVars, nextId,
                    loadVars>>

\* forcSync (the manual trigger) and the timer set by handleNetworkChange both
\* call offlineService.syncOfflineActions.
SyncRequest(src) ==
  /\ OfflineStep
  /\ \/ src = "forcSync" /\ isOnline /\ UNCHANGED timerPending
     \/ src = "timer" /\ timerPending /\ timerPending' = FALSE
  /\ SyncOfflineActions(isOnline)
  /\ UNCHANGED <<isOnline, syncQueue, storage, lastSync, delivered, facadeVars, nextId,
                 loadVars>>
  /\ lastEvent' = NoEvent

\* ------------------------------------------------------- facade calls
\* addOfflineAction: push, then saveOfflineActions -> cacheData('ACTIONS', queue)
AddOfflineAction(p, op, stored) ==
  LET a == [id |-> nextId]
      q == Append(syncQueue, a)
  IN /\ syncQueue' = q
     /\ storage' = CacheData(storage, q, stored)
     /\ nextId' = nextId + 1
     /\ fact' = [fact EXCEPT ![p] = a]
     /\ fstored' = [fstored EXCEPT ![p] = stored]
     /\ fpc' = [fpc EXCEPT ![p] = "saving"]

\* Mutant: the catch block rethrows.
RethrowOnRemoteFailure == "throw"

\* What the facade does when the direct remote call rejects: the catch block
\* logs and falls through to the offline path.
OnRemoteFailure == "enqueue"

\* What the facade resolves with once the action is queued.
QueuedResult == "ok"

\* createPost / likePost / createComment / sendDirectMessage up to the first await
FacadeCall(p, op, stored) ==
  /\ OfflineStep
  /\ fpc[p] = "idle"
  /\ nextId <= MaxActions
  /\ fop' = [fop EXCEPT ![p] = op]
  /\ fres' = [fres EXCEPT ![p] = "none"]
  /\ IF isOnline
     THEN /\ fpc' = [fpc EXCEPT ![p] = "remote"]
          /\ stored = TRUE
          /\ UNCHANGED <<syncQueue, storage, nextId, fact, fstored, fremote>>
     ELSE /\ AddOfflineAction(p, op, stored)
          /\ fremote' = [fremote EXCEPT ![p] = "offline"]
  /\ UNCHANGED <<isOnline, syncInProgress, lastSync, syncVars, delivered,
                 loadVars, netVars>>
  /\ Quiet

\* The direct remote call settles.
FacadeRemoteDone(p, ok, stored) ==
  /\ OfflineStep
  /\ fpc[p] = "remote"
  /\ fremote' = [fremote EXCEPT ![p] = IF ok THEN "ok" ELSE "failed"]
  /\ IF ok
     THEN /\ fpc' = [fpc EXCEPT ![p] = "done"]
          /\ fres' = [fres EXCEPT ![p] = "ok"]
          /\ stored = TRUE
          /\ UNCHANGED <<syncQueue, storage, nextId, fact, fstored>>
     ELSE IF OnRemoteFailure = "enqueue"
          THEN /\ AddOfflineAction(p, fop[p], stored)
               /\ UNCHANGED fres
          ELSE /\ fpc' = [fpc EXCEPT ![p] = "done"]
               /\ fres' = [fres EXCEPT ![p] = "error"]
               /\ stored = TRUE
               /\ UNCHANGED <<syncQueue, storage, nextId, fact, fstored>>
  /\ UNCHANGED <<isOnline, syncInProgress, lastSync, syncVars, delivered, fop,
                 loadVars, netVars>>
  /\ Quiet

\* await this.addOfflineAction(...) resumes; the cache updates that follow
\* swallow their errors, and the call resolves.
FacadeSaved(p) ==
  /\ OfflineStep
  /\ fpc[p] = "saving"
  /\ fpc' = [fpc EXCEPT ![p] = "done"]
  /\ fres' = [fres EXCEPT ![p] = QueuedResult]
  /\ UNCHANGED <<isOnline, syncInProgress, syncQueue, storage, lastSync, syncVars,
                 delivered, fop, fact, fstored, fremote, nextId, loadVars, netVars>>
  /\ Quiet

\* The caller has taken the result.
FacadeReturn(p) ==
  /\ OfflineStep
  /\ fpc[p] = "done"
  /\ fpc' = [fpc EXCEPT ![p] = "idle"]
  /\ fop' = [fop EXCEPT ![p] = "none"]
  /\ fact' = [fact EXCEPT ![p] = NoAction]
  /\ fstored' = [fstored EXCEPT ![p] = FALSE]
  /\ fremote' = [fremote EXCEPT ![p] = "none"]
  /\ fres' = [fres EXCEPT ![p] = "none"]
  /\ UNCHANGED <<isOnline, syncInProgress, syncQueue, storage, lastSync, syncVars,
                 delivered, nextId, loadVars, netVars>>
  /\ Quiet

\* ------------------------------------------------------ NetworkService
\* A step of NetworkService (or of offlineStorage's queue functions) leaves
\* OfflineService alone.
NetworkStep ==
  /\ service = "NetworkService"
  /\ UNCHANGED <<service, syncQueue, facadeVars, loadVars, timerPending, auxVars>>

\* getOfflineQueue: a failed getItem is caught and the result is [].
GetOfflineQueue(read, ok) == IF ok THEN read ELSE <<>>

\* queue.filter(action => action.id !== actionId)
WithoutId(q, id) == SelectSeq(q, LAMBDA a : a.id # id)

\* The setItem of addToOfflineQueue and removeFromOfflineQueue is inside
\* try/catch: a failed write is logged and the stored queue stays what it was.
SetOfflineQueue(old, new, ok) == IF ok THEN new ELSE old

\* setLastSyncTime up to its await (its error is caught inside it).
SetLastSyncTime(s, ok) ==
  /\ lastSync' = (IF ok THEN "written" ELSE lastSync)
  /\ spc' = [spc EXCEPT ![s] = "stamping"]

\* The guard of NetworkService.syncOfflineActions.
NetSyncGuard(conn, inProgress) == conn /\ ~inProgress

\* NetworkService.syncOfflineActions up to its first await: getOfflineQueue's
\* getItem is issued.
NetSyncOfflineActions(conn) ==
  IF NetSyncGuard(conn, syncInProgress)
  THEN LET s == FreeSlot IN
       /\ \E t \in SyncSlots : spc[t] = "idle"
       /\ syncInProgress' = TRUE
       /\ spc' = [spc EXCEPT ![s] = "reading"]
       /\ snap' = [snap EXCEPT ![s] = storage]
       /\ UNCHANGED <<idx, failed, plog, sread>>
       /\ lastCall' = "started"
  ELSE /\ UNCHANGED <<syncInProgress, syncVars, sread>>
       /\ lastCall' = IF syncInProgress THEN "busy" ELSE "skipped"

\* await getOfflineQueue() resumes: the loop starts, or, the queue being empty,
\* the pass goes straight to setLastSyncTime.
QueueRead(s, ok, stamped) ==
  /\ NetworkStep
  /\ spc[s] = "reading"
  /\ LET q == GetOfflineQueue(snap[s], ok)
     IN /\ snap' = [snap EXCEPT ![s] = q]
        /\ IF q = <<>>
           THEN /\ SetLastSyncTime(s, stamped)
                /\ UNCHANGED idx
           ELSE /\ spc' = [spc EXCEPT ![s] = "dispatch"]
                /\ idx' = [idx EXCEPT ![s] = 1]
                /\ stamped = TRUE
                /\ UNCHANGED lastSync
  /\ UNCHANGED <<isOnline, syncInProgress, storage, failed, plog, delivered, nextId,
                 sread, addVars, fetchPending>>
  /\ Quiet

\* await this.processOfflineAction(action) settles.  After a success
\* removeFromOfflineQueue is called (its getItem is issued); after a failure
\* the catch block logs and the loop goes on.
NetDispatchDone(s, ok, stamped) ==
  /\ NetworkStep
  /\ spc[s] = "dispatch"
  /\ LET a == snap[s][idx[s]]
     IN /\ plog' = [plog EXCEPT ![s] = Append(plog[s], [id |-> a.id, ok |-> ok])]
        /\ delivered' = (IF ok THEN delivered \cup {a.id} ELSE delivered)
        /\ IF ok
           THEN /\ sread' = [sread EXCEPT ![s] = storage]
                /\ spc' = [spc EXCEPT ![s] = "removeRead"]
                /\ stamped = TRUE
                /\ UNCHANGED <<idx, lastSync>>
           ELSE /\ IF LoopContinues(ok, idx[s], Len(snap[s]))
                   THEN /\ idx' = [idx EXCEPT ![s] = idx[s] + 1]
                        /\ stamped = TRUE
                        /\ UNCHANGED <<spc, lastSync>>
                   ELSE /\ SetLastSyncTime(s, stamped)
                        /\ UNCHANGED idx
                /\ UNCHANGED sread
  /\ UNCHANGED <<isOnline, syncInProgress, storage, snap, failed, nextId, addVars,
                 fetchPending>>
  /\ Quiet

\* removeFromOfflineQueue: its getOfflineQueue resumes, the filtered queue is
\* written back.
RemoveRead(s, rok, wok) ==
  /\ NetworkStep
  /\ spc[s] = "removeRead"
  /\ LET q == GetOfflineQueue(sread[s], rok)
     IN storage' = SetOfflineQueue(storage, WithoutId(q, snap[s][idx[s]].id), wok)
  /\ sread' = [sread EXCEPT ![s] = <<>>]
  /\ spc' = [spc EXCEPT ![s] = "removeWrite"]
  /\ UNCHANGED <<isOnline, syncInProgress, lastSync, snap, idx, failed, plog, delivered,
                 nextId, addVars, fetchPending>>
  /\ Quiet

\* await removeFromOfflineQueue(action.id) resumes: next action, or the end
\* of the loop.
RemoveWritten(s, stamped) ==
  /\ NetworkStep
  /\ spc[s] = "removeWrite"
  /\ IF LoopContinues(TRUE, idx[s], Len(snap[s]))
     THEN /\ idx' = [idx EXCEPT ![s] = idx[s] + 1]
          /\ spc' = [spc EXCEPT ![s] = "dispatch"]
          /\ stamped = TRUE
          /\ UNCHANGED lastSync
     ELSE /\ SetLastSyncTime(s, stamped)
          /\ UNCHANGED idx
  /\ UNCHANGED <<isOnline, syncInProgress, storage, snap, failed, plog, delivered,
                 nextId, sread, addVars, fetchPending>>
  /\ Quiet

\* setLastSyncTime and refreshCacheData (which catches its own errors) have
\* resumed; the finally block clears the flag.
NetSyncFinish(s) ==
  /\ NetworkStep
  /\ spc[s] = "stamping"
  /\ syncInProgress' = FALSE
  /\ Return(s)
  /\ UNCHANGED <<isOnline, storage, lastSync, delivered, nextId, sread, addVars,
                 fetchPending>>
  /\ Quiet

\* The callback NetworkService gives to NetInfo.addEventListener.
NetworkEvent(c) ==
  LET wasConnected == isOnline
  IN /\ NetworkStep
     /\ isOnline' = c
     /\ IF IsEdge(~wasConnected, c)
        THEN NetSyncOfflineActions(c)
        ELSE /\ UNCHANGED <<syncInProgress, syncVars, sread>>
             /\ lastCall' = NoCall
     /\ lastEvent' = (IF ReportedOffline /\ c THEN "edge" ELSE "nonedge")
     /\ UNCHANGED <<storage, lastSync, delivered, nextId, addVars, fetchPending>>

\* NetInfo.fetch().then(...): the initial state arrives.
FetchDone(c) ==
  /\ NetworkStep
  /\ fetchPending
  /\ fetchPending' = FALSE
  /\ isOnline' = c
  /\ UNCHANGED <<syncInProgress, storage, lastSync, syncVars, delivered, nextId,
                 sread, addVars>>
  /\ Quiet

\* forceSync: throws when not connected, else calls syncOfflineActions.
ForceSync ==
  /\ NetworkStep
  /\ isOnline
  /\ NetSyncOfflineActions(isOnline)
  /\ lastEvent' = NoEvent
  /\ UNCHANGED <<isOnline, storage, lastSync, delivered, nextId, addVars, fetchPending>>

\* addToOfflineQueue up to its await: getOfflineQueue's getItem is issued.
AddToOfflineQueue ==
  /\ NetworkStep
  /\ apc = "idle"
  /\ nextId <= MaxActions
  /\ apc' = "reading"
  /\ aread' = storage
  /\ UNCHANGED <<isOnline, syncInProgress, storage, lastSync, syncVars, delivered,
                 nextId, sread, fetchPending>>
  /\ Quiet

\* addToOfflineQueue: the read resumes, the action gets its id and the
\* extended queue is written.
AddRead(rok, wok) ==
  /\ NetworkStep
  /\ apc = "reading"
  /\ LET q == GetOfflineQueue(aread, rok)
     IN storage' = SetOfflineQueue(storage, Append(q, [id |-> nextId]), wok)
  /\ nextId' = nextId + 1
  /\ apc' = "writing"
  /\ aread' = <<>>
  /\ UNCHANGED <<isOnline, syncInProgress, lastSync, syncVars, delivered, sread,
                 fetchPending>>
  /\ Quiet

\* addToOfflineQueue resolves.
AddWritten ==
  /\ NetworkStep
  /\ apc = "writing"
  /\ apc' = "idle"
  /\ UNCHANGED <<isOnline, syncInProgress, storage, lastSync, syncVars, delivered,
                 nextId, sread, aread, fetchPending>>
  /\ Quiet

\* ------------------------------------------------ load and restart
\* loadOfflineActions resumes with what getItem read when the constructor
\* issued it; a failed read gives null and the queue becomes [].
LoadDone(ok) ==
  /\ OfflineStep
  /\ loadPc = "pending"
  /\ loadPc' = "done"
  /\ syncQueue' = IF ok THEN loadRead ELSE <<>>
  /\ loadRead' = <<>>
  /\ UNCHANGED <<isOnline, syncInProgress, storage, lastSync, syncVars, delivered,
                 facadeVars, nextId, netVars>>
  /\ Quiet

\* The process is killed and started again: memory is lost, AsyncStorage and
\* the remote service keep their contents, and the constructor runs.
Restart ==
  /\ isOnline' = TRUE
  /\ syncInProgress' = FALSE
  /\ syncQueue' = <<>>
  /\ spc' = [s \in SyncSlots |-> "idle"]
  /\ snap' = [s \in SyncSlots |-> <<>>]
  /\ idx' = [s \in SyncSlots |-> 0]
  /\ failed' = [s \in SyncSlots |-> <<>>]
  /\ plog' = [s \in SyncSlots |-> <<>>]
  /\ fpc' = [p \in FacadeSlots |-> "idle"]
  /\ fop' = [p \in FacadeSlots |-> "none"]
  /\ fact' = [p \in FacadeSlots |-> NoAction]
  /\ fstored' = [p \in FacadeSlots |-> FALSE]
  /\ fremote' = [p \in FacadeSlots |-> "none"]
  /\ fres' = [p \in FacadeSlots |-> "none"]
  /\ loadPc' = (IF service = "OfflineService" THEN "pending" ELSE "done")
  /\ loadRead' = (IF service = "OfflineService" THEN storage ELSE <<>>)
  /\ lastCall' = NoCall
  /\ lastEvent' = NoEvent
  /\ timerPending' = FALSE
  /\ sread' = [s \in SyncSlots |-> <<>>]
  /\ apc' = "idle"
  /\ aread' = <<>>
  /\ fetchPending' = (service = "NetworkService")
  /\ UNCHANGED <<service, storage, lastSync, delivered, nextId, auxVars>>

Next ==
  \/ \E c \in BOOLEAN : NetEvent(c)
  \/ \E src \in {"forcSync", "timer"} : SyncRequest(src)
  \/ \E s \in SyncSlots, ok \in BOOLEAN, stored \in BOOLEAN : DispatchDone(s, ok, stored)
  \/ \E s \in SyncSlots, ok \in BOOLEAN : SyncSaved(s, ok)
  \/ \E s \in SyncSlots : SyncFinish(s)
  \/ \E p \in FacadeSlots, op \in FacadeOps, stored \in BOOLEAN : FacadeCall(p, op, stored)
  \/ \E p \in FacadeSlots, ok \in BOOLEAN, stored \in BOOLEAN : FacadeRemoteDone(p, ok, stored)
  \/ \E p \in FacadeSlots : FacadeSaved(p)
  \/ \E p \in FacadeSlots : FacadeReturn(p)
  \/ \E ok \in BOOLEAN : LoadDone(ok)
  \/ \E c \in BOOLEAN : NetworkEvent(c)
  \/ \E c \in BOOLEAN : FetchDone(c)
  \/ ForceSync
  \/ \E s \in SyncSlots, ok \in BOOLEAN, stamped \in BOOLEAN : QueueRead(s, ok, stamped)
  \/ \E s \in SyncSlots, ok \in BOOLEAN, stamped \in BOOLEAN : NetDispatchDone(s, ok, stamped)
  \/ \E s \in SyncSlots, rok \in BOOLEAN, wok \in BOOLEAN : RemoveRead(s, rok, wok)
  \/ \E s \in SyncSlots, stamped \in BOOLEAN : RemoveWritten(s, stamped)
  \/ \E s \in SyncSlots : NetSyncFinish(s)
  \/ AddToOfflineQueue
  \/ \E rok \in BOOLEAN, wok \in BOOLEAN : AddRead(rok, wok)
  \/ AddWritten
  \/ Restart

Spec == Init /\ [][Next]_vars

\* ------------------------------------------------------- liveness
\* A process that was started with a queue persisted by an earlier run (or
\* with none) and is not killed again.  The event loop runs every continuation
\* whose await has settled (weak fairness on the steps that resume a call), and
\* a remote dispatch that is retried again and again eventually succeeds.
\* Nothing obliges the user to press the manual sync or the network to change.
PersistedAtStart == {<<>>, <<[id |-> 1]>>}

LiveInit ==
  /\ service = "OfflineService"
  /\ isOnline = TRUE
  /\ syncInProgress = FALSE
  /\ syncQueue = <<>>
  /\ storage \in PersistedAtStart
  /\ lastSync = "never"
  /\ spc = [s \in SyncSlots |-> "idle"]
  /\ snap = [s \in SyncSlots |-> <<>>]
  /\ idx = [s \in SyncSlots |-> 0]
  /\ failed = [s \in SyncSlots |-> <<>>]
  /\ plog = [s \in SyncSlots |-> <<>>]
  /\ delivered = {}
  /\ fpc = [p \in FacadeSlots |-> "idle"]
  /\ fop = [p \in FacadeSlots |-> "none"]
  /\ fact = [p \in FacadeSlots |-> NoAction]
  /\ fstored = [p \in FacadeSlots |-> FALSE]
  /\ fremote = [p \in FacadeSlots |-> "none"]
  /\ fres = [p \in FacadeSlots |-> "none"]
  /\ nextId = Len(storage) + 1
  /\ loadPc = "pending"
  /\ loadRead = storage
  /\ lastCall = NoCall
  /\ lastEvent = NoEvent
  /\ timerPending = FALSE
  /\ sread = [s \in SyncSlots |-> <<>>]
  /\ apc = "idle"
  /\ aread = <<>>
  /\ fetchPending = FALSE
  /\ AuxInit

LiveNext ==
  \/ \E c \in BOOLEAN : NetEvent(c)
  \/ \E src \in {"forcSync", "timer"} : SyncRequest(src)
  \/ \E s \in SyncSlots, ok \in BOOLEAN, stored \in BOOLEAN : DispatchDone(s, ok, stored)
  \/ \E s \in SyncSlots, ok \in BOOLEAN : SyncSaved(s, ok)
  \/ \E s \in SyncSlots : SyncFinish(s)
  \/ \E p \in FacadeSlots, op \in FacadeOps, stored \in BOOLEAN : FacadeCall(p, op, stored)
  \/ \E p \in FacadeSlots, ok \in BOOLEAN, stored \in BOOLEAN : FacadeRemoteDone(p, ok, stored)
  \/ \E p \in FacadeSlots : FacadeSaved(p)
  \/ \E p \in FacadeSlots : FacadeReturn(p)
  \/ \E ok \in BOOLEAN : LoadDone(ok)

Resumes ==
  /\ WF_vars(\E s \in SyncSlots, ok \in BOOLEAN, stored \in BOOLEAN : DispatchDone(s, ok, stored))
  /\ WF_vars(\E s \in SyncSlots, ok \in BOOLEAN : SyncSaved(s, ok))
  /\ WF_vars(\E s \in SyncSlots : SyncFinish(s))
  /\ WF_vars(\E p \in FacadeSlots, ok \in BOOLEAN, stored \in BOOLEAN :
               FacadeRemoteDone(p, ok, stored))
  /\ WF_vars(\E p \in FacadeSlots : FacadeSaved(p))
  /\ WF_vars(\E p \in FacadeSlots : FacadeReturn(p))
  /\ WF_vars(\E ok \in BOOLEAN : LoadDone(ok))

RemoteEventuallySucceeds ==
  SF_vars(\E s \in SyncSlots, stored \in BOOLEAN : DispatchDone(s, TRUE, stored))

FairSpec == LiveInit /\ [][LiveNext]_vars /\ Resumes /\ RemoteEventuallySucceeds

\* ------------------------------------------- offlineStorage's cache
\* The variables of the queues and of their drains.
queueVars == <<service, isOnline, syncInProgress, syncQueue, storage, lastSync,
               spc, snap, idx, failed, plog, delivered,
               fpc, fop, fact, fstored, fremote, fres, nextId, loadPc, loadRead,
               lastCall, lastEvent, timerPending, sread, apc, aread, fetchPending>>

\* The time-to-live values callers pass (expirationMinutes, in clock ticks).
Ttls == 1..MaxTtl

\* expiration: Date.now() + (expirationMinutes * 60 * 1000)
Expiration(t, ttl) == t + ttl

\* parsedItem.expiration && Date.now() > parsedItem.expiration
Expired(e, t) == e.expiration # 0 /\ t > e.expiration

notCache == <<queueVars, levelVars, ledgerVars, moreVars>>

\* Time passes.
Tick ==
  /\ now < MaxTime
  /\ now' = now + 1
  /\ UNCHANGED <<notCache, centry, gpc, gread, cres>>

\* cacheData(key, data, expirationMinutes): the entry is built and setItem is
\* issued; a failed write is caught and logged.
CachePut(d, ttl, ok) ==
  /\ centry' = (IF ok
                THEN [data |-> d, timestamp |-> now, expiration |-> Expiration(now, ttl)]
                ELSE centry)
  /\ UNCHANGED <<notCache, now, gpc, gread, cres>>

\* getCachedData(key) up to its first await: getItem is issued.
GetCachedDataCall ==
  /\ gpc = "idle"
  /\ gpc' = "reading"
  /\ gread' = centry
  /\ UNCHANGED <<notCache, now, centry, cres>>

\* await getItem resumes: a failed read and an absent entry give null; an
\* expired entry is removed (removeItem is issued); else the data is returned.
GetCachedDataRead(ok, removed) ==
  /\ gpc = "reading"
  /\ gread' = NoEntry
  /\ IF ~ok \/ gread = NoEntry
     THEN /\ cres' = [kind |-> "miss", data |-> "", expiration |-> 0, at |-> now]
          /\ gpc' = "idle"
          /\ removed = FALSE
          /\ UNCHANGED centry
     ELSE IF Expired(gread, now)
          THEN /\ centry' = (IF removed THEN NoEntry ELSE centry)
               /\ gpc' = "removing"
               /\ UNCHANGED cres
          ELSE /\ cres' = [kind |-> "hit", data |-> gread.data,
                           expiration |-> gread.expiration, at |-> now]
               /\ gpc' = "idle"
               /\ removed = FALSE
               /\ UNCHANGED centry
  /\ UNCHANGED <<notCache, now>>

\* await removeItem resumes (or its rejection is caught): null is returned.
GetCachedDataRemoved ==
  /\ gpc = "removing"
  /\ gpc' = "idle"
  /\ cres' = [kind |-> "miss", data |-> "", expiration |-> 0, at |-> now]
  /\ UNCHANGED <<notCache, now, centry, gread>>

CacheNext ==
  \/ Tick
  \/ \E d \in Data, ttl \in Ttls, ok \in BOOLEAN : CachePut(d, ttl, ok)
  \/ GetCachedDataCall
  \/ \E ok \in BOOLEAN, removed \in BOOLEAN : GetCachedDataRead(ok, removed)
  \/ GetCachedDataRemoved

CacheSpec == Init /\ [][CacheNext]_vars

\* ------------------------------------------- calculateLevel on inputs
\* The experience grows by d, the level is derived again and the level-up is
\* reported.
GainXp(d) ==
  /\ lxp + d <= MaxXp
  /\ lprev' = lxp
  /\ lxp' = lxp + d
  /\ llevel' = CalculateLevelOf(lxp + d, ltable)
  /\ lup' = CheckLevelUpOf(lxp, lxp + d, ltable)
  /\ UNCHANGED <<queueVars, cacheVars, ledgerVars, moreVars, ltable>>

LevelNext == \E d \in 0..MaxXp : GainXp(d)

\* calculateLevel's inputs; the rest of the application is idle.
LevelStart == QueueInit /\ CacheInit /\ LevelInit /\ LedgerIdle /\ MoreIdle

LevelSpec == LevelStart /\ [][LevelNext]_vars

\* ------------------------------------------------- ledger operations
\* An action is the code of one operation between two awaits: the request
\* the operation is waiting for is served by Firestore and the code runs on
\* to its next request.
notLedger == <<queueVars, cacheVars, levelVars, moreVars>>

HandlerOps == {"handlePostCreated", "handlePostLikeReceived"}
AwardOps == HandlerOps \cup {"awardXP"}

\* The XP_REWARDS action each operation passes to awardXP.
ActionOf(op) ==
  IF op = "handlePostCreated" THEN "create_post"
  ELSE IF op = "handlePostLikeReceived" THEN "receive_like_post"
  ELSE "receive_comment"

\* The amount postsService passes to addUserXP for a created post.
AddUserXPAmount == 10

\* checkAndUnlockAchievements(userId, user) up to its first await: nothing new
\* returns at once, else the update of achievements and xp is requested.
CheckAndUnlockAchievements(p, user) ==
  LET ids == CheckAchievementsForUser(user)
  IN IF ids = {}
     THEN IdleProc
     ELSE [proc[p] EXCEPT !.pc = "unlock", !.user = user, !.ids = ids]

\* No other ledger operation is running.
Alone(p) == \A q \in Procs \ {p} : proc[q].pc = "idle"

\* What lastRun becomes when the operation of p returns.
RunReturned(p) ==
  IF proc[p].op # "checkAndUnlockAchievements" THEN lastRun
  ELSE IF Alone(p) THEN proc[p].user
  ELSE NoUser

\* A ledger operation is called; the handlers and checkAndUnlockAchievements
\* are given the User object the caller holds.
Call(p, op) ==
  /\ proc[p].pc = "idle"
  /\ calls < MaxCalls
  /\ calls' = calls + 1
  /\ proc' = [proc EXCEPT ![p] =
       IF op \in AwardOps
       THEN [IdleProc EXCEPT !.op = op, !.pc = "awardRead", !.user = view,
                             !.amount = XP_REWARDS[ActionOf(op)]]
       ELSE IF op = "checkAndUnlockAchievements"
       THEN LET r == CheckAndUnlockAchievements(p, view)
            IN IF r = IdleProc THEN r ELSE [r EXCEPT !.op = op]
       ELSE IF op = "addUserXP"
       THEN [IdleProc EXCEPT !.op = op, !.pc = "addRead", !.amount = AddUserXPAmount]
       ELSE IF op = "applyRetroactiveXP"
       THEN [IdleProc EXCEPT !.op = op, !.pc = "retroRead"]
       ELSE [IdleProc EXCEPT !.op = op, !.pc = "countsRead"]]
  /\ lastRun' = (IF op # "checkAndUnlockAchievements" \/ ~Alone(p) THEN NoUser
                 ELSE IF CheckAchievementsForUser(view) = {} THEN view
                 ELSE lastRun)
  /\ UNCHANGED <<notLedger, doc, auth, accountAge, view, credited, raised, retroAt>>

\* awardXP: getDoc resumes; the new level is derived from the xp just read and
\* the update {xp: increment(xpAmount), level: newLevel} is requested.
AwardRead(p) ==
  /\ proc[p].pc = "awardRead"
  /\ proc' = [proc EXCEPT ![p].pc = "awardWrite",
                          ![p].read = doc.xp,
                          ![p].level = CalculateLevel(doc.xp + proc[p].amount)]
  /\ UNCHANGED <<notLedger, doc, auth, accountAge, view, credited, calls, lastRun, raised, retroAt>>

\* awardXP: the update is applied and awardXP returns; a handler goes on to
\* increment its counter.
AwardWrite(p) ==
  /\ proc[p].pc = "awardWrite"
  /\ doc' = [doc EXCEPT !.xp = doc.xp + proc[p].amount, !.level = proc[p].level]
  /\ proc' = [proc EXCEPT ![p] =
       IF proc[p].op \in HandlerOps THEN [proc[p] EXCEPT !.pc = "counter"]
       ELSE IdleProc]
  /\ UNCHANGED <<notLedger, auth, accountAge, view, credited, calls, lastRun, raised, retroAt>>

\* The user object a handler gives to checkAndUnlockAchievements.
UpdatedUser(op, user, xpAwarded) ==
  IF op = "handlePostCreated"
  THEN [user EXCEPT !.totalPosts = user.totalPosts + 1, !.xp = user.xp + xpAwarded]
  ELSE [user EXCEPT !.totalLikes = user.totalLikes + 1, !.xp = user.xp + xpAwarded]

\* A handler: the increment(1) of totalPosts / totalLikes is applied, and
\* checkAndUnlockAchievements is called with the caller's user object updated
\* by hand.
CounterWrite(p) ==
  /\ proc[p].pc = "counter"
  /\ doc' = (IF proc[p].op = "handlePostCreated"
             THEN [doc EXCEPT !.totalPosts = doc.totalPosts + 1]
             ELSE [doc EXCEPT !.totalLikes = doc.totalLikes + 1])
  /\ proc' = [proc EXCEPT ![p] =
       CheckAndUnlockAchievements(p, UpdatedUser(proc[p].op, proc[p].user, proc[p].amount))]
  /\ UNCHANGED <<notLedger, auth, accountAge, view, credited, calls, lastRun, raised, retroAt>>

\* checkAndUnlockAchievements: the update {achievements: arrayUnion(...), xp:
\* increment(total)} is applied (the new elements carry their own unlockedAt,
\* so arrayUnion appends them); the level derived from the user object's xp is
\* written only if it is above the user object's level.
UnlockWrite(p) ==
  /\ proc[p].pc = "unlock"
  /\ LET ids == proc[p].ids
         total == TotalAchievementXP(ids)
         newLevel == CalculateLevel(proc[p].user.xp + total)
     IN /\ doc' = [doc EXCEPT
                     !.achievements = [id \in AchIds |->
                        IF id \in ids THEN doc.achievements[id] + 1
                        ELSE doc.achievements[id]],
                     !.xp = doc.xp + total]
        /\ credited' = [id \in AchIds |->
                          IF id \in ids THEN credited[id] + 1 ELSE credited[id]]
        /\ proc' = [proc EXCEPT ![p] =
             IF newLevel > proc[p].user.level
             THEN [proc[p] EXCEPT !.pc = "level", !.level = newLevel]
             ELSE IdleProc]
        /\ lastRun' = (IF newLevel > proc[p].user.level THEN lastRun
                       ELSE RunReturned(p))
  /\ UNCHANGED <<notLedger, auth, accountAge, view, calls, raised, retroAt>>

\* checkAndUnlockAchievements: the update {level: newLevel} is applied.
LevelWrite(p) ==
  /\ proc[p].pc = "level"
  /\ doc' = [doc EXCEPT !.level = proc[p].level]
  /\ proc' = [proc EXCEPT ![p] = IdleProc]
  /\ lastRun' = RunReturned(p)
  /\ UNCHANGED <<notLedger, auth, accountAge, view, credited, calls, raised, retroAt>>

\* addUserXP: getDoc resumes; the level comes from addUserXP's own formula and
\* the update {xp: increment(xp), level: newLevel} is requested.
AddUserXPRead(p) ==
  /\ proc[p].pc = "addRead"
  /\ proc' = [proc EXCEPT ![p].pc = "addWrite",
                          ![p].read = doc.xp,
                          ![p].level = FloorLevel(doc.xp + proc[p].amount)]
  /\ UNCHANGED <<notLedger, doc, auth, accountAge, view, credited, calls, lastRun, raised, retroAt>>

\* addUserXP: the update is applied (the xpTransactions record that follows
\* is not part of the ledger).
AddUserXPWrite(p) ==
  /\ proc[p].pc = "addWrite"
  /\ doc' = [doc EXCEPT !.xp = doc.xp + proc[p].amount, !.level = proc[p].level]
  /\ proc' = [proc EXCEPT ![p] = IdleProc]
  /\ UNCHANGED <<notLedger, auth, accountAge, view, credited, calls, lastRun, raised, retroAt>>

\* applyRetroactiveXP: getDoc resumes.  If the calculated xp is above the xp
\* just read, the update {xp: newXP, level: newLevel, retroactiveXPApplied:
\* true} is requested, else only the flag is.
RetroRead(p) ==
  /\ proc[p].pc = "retroRead"
  /\ LET user == UserOf(doc)
         calculated == CalculateRetroactiveXP(user, accountAge)
     IN proc' = [proc EXCEPT ![p] =
          IF calculated > user.xp
          THEN [proc[p] EXCEPT !.pc = "retroWrite", !.user = user, !.read = user.xp,
                               !.amount = calculated,
                               !.level = CalculateLevel(calculated)]
          ELSE [proc[p] EXCEPT !.pc = "retroFlag", !.user = user, !.read = user.xp]]
  /\ UNCHANGED <<notLedger, doc, auth, accountAge, view, credited, calls, lastRun, raised, retroAt>>

\* applyRetroactiveXP: the update is applied, and checkAndUnlockAchievements
\* is called with the user read earlier and the new xp and level.
RetroWrite(p) ==
  /\ proc[p].pc = "retroWrite"
  /\ doc' = [doc EXCEPT !.xp = proc[p].amount, !.level = proc[p].level,
                        !.retroactiveXPApplied = TRUE]
  /\ proc' = [proc EXCEPT ![p] =
       CheckAndUnlockAchievements(p, [proc[p].user EXCEPT !.xp = proc[p].amount,
                                                          !.level = proc[p].level])]
  /\ retroAt' = {[posts |-> proc[p].user.totalPosts,
                  likes |-> proc[p].user.totalLikes]}
  /\ UNCHANGED <<notLedger, auth, accountAge, view, credited, calls, lastRun, raised>>

\* applyRetroactiveXP, no xp to add: the flag is written.
RetroFlag(p) ==
  /\ proc[p].pc = "retroFlag"
  /\ doc' = [doc EXCEPT !.retroactiveXPApplied = TRUE]
  /\ proc' = [proc EXCEPT ![p] = IdleProc]
  /\ UNCHANGED <<notLedger, auth, accountAge, view, credited, calls, lastRun, raised, retroAt>>

\* getUserPostCount / getUserTotalLikes: a failed query is caught and counts
\* as 0.
Recount(n, ok) == IF ok THEN n ELSE 0

\* needsUpdate in getUserDataWithCounts
NeedsUpdate(userData, d) ==
  \/ userData.totalPosts # d.totalPosts
  \/ userData.totalLikes # d.totalLikes
  \/ d.level # userData.level

\* getUserDataWithCounts: the document and the recounts arrive.  The user
\* object takes the recounts and the level derived from its xp; if the stored
\* document differs the update is requested, else the user object is returned.
CountsRead(p, postsOk, likesOk) ==
  /\ proc[p].pc = "countsRead"
  /\ LET userData == [UserOf(doc) EXCEPT
                        !.totalPosts = Recount(auth.posts, postsOk),
                        !.totalLikes = Recount(auth.likes, likesOk),
                        !.level = CalculateLevel(doc.xp)]
     IN IF NeedsUpdate(userData, doc)
        THEN /\ proc' = [proc EXCEPT ![p].pc = "countsWrite", ![p].user = userData,
                                     ![p].counted = auth]
             /\ UNCHANGED view
        ELSE /\ proc' = [proc EXCEPT ![p] = IdleProc]
             /\ view' = userData
  /\ UNCHANGED <<notLedger, doc, auth, accountAge, credited, calls, lastRun, raised, retroAt>>

\* getUserDataWithCounts: the update of the counters and the level is applied
\* and the user object is returned to the screen.
CountsWrite(p) ==
  /\ proc[p].pc = "countsWrite"
  /\ doc' = [doc EXCEPT !.totalPosts = proc[p].user.totalPosts,
                        !.totalLikes = proc[p].user.totalLikes,
                        !.level = proc[p].user.level]
  /\ view' = proc[p].user
  /\ proc' = [proc EXCEPT ![p] = IdleProc]
  /\ raised' = {id \in AchIds :
                  /\ Meets(proc[p].user, id)
                  /\ id \in raised \/ (~Meets(UserOf(doc), id) /\ doc.achievements[id] = 0)}
  /\ UNCHANGED <<notLedger, auth, accountAge, credited, calls, lastRun, retroAt>>

\* A post of the user, or a like on one of them, appears in the posts
\* collection.
PostAppears ==
  /\ auth.posts < MaxPosts
  /\ auth' = [auth EXCEPT !.posts = auth.posts + 1]
  /\ UNCHANGED <<notLedger, doc, accountAge, view, proc, credited, calls, lastRun, raised, retroAt>>

\* Date.now() passes into the next day of the account's life.
DayPasses ==
  /\ accountAge < MaxAge
  /\ accountAge' = accountAge + 1
  /\ UNCHANGED <<notLedger, doc, auth, view, proc, credited, calls, lastRun, raised,
               retroAt>>

LikeAppears ==
  /\ auth.posts > 0
  /\ auth.likes < MaxLikes
  /\ auth' = [auth EXCEPT !.likes = auth.likes + 1]
  /\ UNCHANGED <<notLedger, doc, accountAge, view, proc, credited, calls, lastRun, raised, retroAt>>

LedgerOps ==
  AwardOps \cup {"checkAndUnlockAchievements", "addUserXP", "applyRetroactiveXP",
                 "getUserDataWithCounts"}

LedgerNext ==
  \/ \E p \in Procs, op \in LedgerOps : Call(p, op)
  \/ \E p \in Procs : AwardRead(p)
  \/ \E p \in Procs : AwardWrite(p)
  \/ \E p \in Procs : CounterWrite(p)
  \/ \E p \in Procs : UnlockWrite(p)
  \/ \E p \in Procs : LevelWrite(p)
  \/ \E p \in Procs : AddUserXPRead(p)
  \/ \E p \in Procs : AddUserXPWrite(p)
  \/ \E p \in Procs : RetroRead(p)
  \/ \E p \in Procs : RetroWrite(p)
  \/ \E p \in Procs : RetroFlag(p)
  \/ \E p \in Procs, postsOk \in BOOLEAN, likesOk \in BOOLEAN : CountsRead(p, postsOk, likesOk)
  \/ \E p \in Procs : CountsWrite(p)
  \/ PostAppears
  \/ LikeAppears
  \/ DayPasses

\* A user's ledger before any operation; the rest of the application is idle.
LedgerStart == QueueInit /\ CacheInit /\ LevelIdle /\ LedgerInit /\ MoreIdle

LedgerSpec == LedgerStart /\ [][LedgerNext]_vars

\* ------------------------------------------ draining typed actions
notDispatch == <<queueVars, cacheVars, levelVars, ledgerVars, listenerVars, loginVars>>

\* An action enters the queue (addOfflineAction / addToOfflineQueue).  local
\* is not a field of the action: it records which offline_<timestamp> post
\* the facade made together with a CREATE_POST action, whose data carries
\* only content, tags and images.
Enqueue(type, postId, local) ==
  /\ made < MaxQueued
  /\ made' = made + 1
  /\ pqueue' = Append(pqueue, [id |-> made + 1, type |-> type, postId |-> postId,
                               local |-> local])

\* createPost, offline path: the offline post and the CREATE_POST action.
CreatePostOffline ==
  /\ Enqueue("CREATE_POST", NoPost, made + 1)
  /\ placeholders' = placeholders \cup {made + 1}
  /\ UNCHANGED <<notDispatch, version, posts, ppc, psnap, pidx, pfailed, outcomes>>

\* The ids of the posts the user sees: those of the posts collection and
\* those of the offline posts in the cache.
VisiblePosts == {p.id : p \in posts} \cup {OfflineId(n) : n \in placeholders}

\* likePost, offline path: the action carries the id of the post as shown.
LikePostOffline(postId) ==
  /\ postId \in VisiblePosts
  /\ Enqueue("LIKE_POST", postId, 0)
  /\ UNCHANGED <<notDispatch, version, posts, placeholders, ppc, psnap, pidx, pfailed,
                 outcomes>>

\* An action of another type is queued.
EnqueueOther(type) ==
  /\ type \in {"SEND_MESSAGE", "UPDATE_PROFILE"}
  /\ Enqueue(type, NoPost, 0)
  /\ UNCHANGED <<notDispatch, version, posts, placeholders, ppc, psnap, pidx, pfailed,
                 outcomes>>

\* processOfflineAction(action): what the remote service does and whether the
\* call throws.  netOk: the remote service can be reached.
ProcessOfflineAction(a, netOk) ==
  IF a.type \notin Handled(version)
  THEN [outcome |-> "unhandled", throws |-> FALSE, posts |-> posts]
  ELSE IF ~netOk
  THEN [outcome |-> "network_error", throws |-> TRUE, posts |-> posts]
  ELSE IF a.type = "CREATE_POST"
  THEN [outcome |-> "applied", throws |-> FALSE,
        posts |-> posts \cup {[id |-> ServerId(Cardinality(posts)),
                               origin |-> a.local, liked |-> FALSE]}]
  ELSE IF a.type = "LIKE_POST"
  THEN IF \E p \in posts : p.id = a.postId
       THEN [outcome |-> "applied", throws |-> FALSE,
             posts |-> {IF p.id = a.postId THEN [p EXCEPT !.liked = ~p.liked] ELSE p :
                        p \in posts}]
       ELSE [outcome |-> "not_found",
             throws |-> (LikeOfMissingPost(version) = "throw"), posts |-> posts]
  ELSE [outcome |-> "applied", throws |-> FALSE, posts |-> posts]

\* syncOfflineActions starts a pass over the queue as it is.
DrainStart ==
  /\ ppc = "idle"
  /\ pqueue # <<>>
  /\ ppc' = "dispatch"
  /\ psnap' = Snapshot(pqueue)
  /\ pidx' = 1
  /\ pfailed' = <<>>
  /\ outcomes' = <<>>
  /\ UNCHANGED <<notDispatch, version, pqueue, posts, placeholders, made>>

\* await processOfflineAction(action) settles; after the last action the
\* queue keeps the actions whose dispatch threw.
DrainDispatch(netOk) ==
  /\ ppc = "dispatch"
  /\ LET a == psnap[pidx]
         r == ProcessOfflineAction(a, netOk)
         f == PushFailed(pfailed, a, ~r.throws)
     IN /\ posts' = r.posts
        /\ outcomes' = Append(outcomes, [action |-> a, outcome |-> r.outcome])
        /\ pfailed' = f
        /\ IF LoopContinues(~r.throws, pidx, Len(psnap))
           THEN /\ pidx' = pidx + 1
                /\ UNCHANGED <<ppc, pqueue>>
           ELSE /\ pqueue' = f
                /\ ppc' = "idle"
                /\ UNCHANGED pidx
  /\ UNCHANGED <<notDispatch, version, placeholders, psnap, made>>

DispatchNext ==
  \/ CreatePostOffline
  \/ \E n \in 0..MaxQueued, k \in {"offline", "server"} : LikePostOffline(<<k, n>>)
  \/ \E type \in ActionTypes : EnqueueOther(type)
  \/ DrainStart
  \/ \E netOk \in BOOLEAN : DrainDispatch(netOk)

\* The typed queue and its drain; the rest of the application is idle.
DispatchStart ==
  /\ QueueInit /\ CacheInit /\ LevelIdle /\ LedgerIdle
  /\ DispatchInit /\ ListenerInit /\ LoginInit

DispatchSpec == DispatchStart /\ [][DispatchNext]_vars

\* ------------------------------------------- notifying the listeners
notListener == <<queueVars, cacheVars, levelVars, ledgerVars, dispatchVars, loginVars>>

ListenerIds == 1..MaxListeners
Registered == {listeners[i] : i \in 1..Len(listeners)}

\* addNetworkListener(listener): this.listeners.push(listener)
AddNetworkListener(l) ==
  /\ l \notin Registered
  /\ listeners' = Append(listeners, l)
  /\ notified' = NoEventYet
  /\ UNCHANGED <<notListener, isConnected>>

\* The unsubscribe function addNetworkListener returned:
\* this.listeners = this.listeners.filter(l => l !== listener)
Unsubscribe(l) ==
  /\ l \in Registered
  /\ listeners' = SelectSeq(listeners, LAMBDA x : x # l)
  /\ notified' = NoEventYet
  /\ UNCHANGED <<notListener, isConnected>>

\* this.listeners.forEach(listener => listener(...)): the listeners are called
\* in array order; the call is not inside a try block, so the first listener
\* that throws ends the forEach.  throwing: the listeners that throw.
CalledBy(ls, throwing) ==
  LET firstThrow == {i \in 1..Len(ls) : ls[i] \in throwing /\
                                         \A j \in 1..(i - 1) : ls[j] \notin throwing}
  IN IF firstThrow = {} THEN ls
     ELSE SubSeq(ls, 1, CHOOSE i \in firstThrow : TRUE)

\* The callback given to NetInfo.addEventListener: isConnected is set, the
\* listeners are notified, and on a disconnected-to-connected edge
\* syncOfflineActions is called, unless a listener's exception has ended the
\* callback before.
ReachabilityEvent(c, throwing) ==
  LET wasConnected == isConnected
      called == CalledBy(listeners, throwing)
      threw == \E i \in 1..Len(called) : called[i] \in throwing
  IN /\ throwing \subseteq Registered
     /\ isConnected' = c
     /\ notified' = [event |-> TRUE, called |-> called,
                     edge |-> IsEdge(~wasConnected, c),
                     synced |-> ~threw /\ IsEdge(~wasConnected, c)]
     /\ UNCHANGED <<notListener, listeners>>

ListenerNext ==
  \/ \E l \in ListenerIds : AddNetworkListener(l)
  \/ \E l \in ListenerIds : Unsubscribe(l)
  \/ \E c \in BOOLEAN, throwing \in SUBSET ListenerIds : ReachabilityEvent(c, throwing)

\* NetworkService and its listeners; the rest of the application is idle.
ListenerStart ==
  /\ QueueInit /\ CacheInit /\ LevelIdle /\ LedgerIdle
  /\ DispatchIdle /\ ListenerInit /\ LoginInit

ListenerSpec == ListenerStart /\ [][ListenerNext]_vars

\* ----------------------------------------------------------- daily login
notLogin == <<queueVars, cacheVars, levelVars, ledgerVars, dispatchVars, listenerVars>>

\* new Date(date).toDateString(): the calendar day of an instant.
ToDateString(date) == date \div TicksPerDay

\* HomeScreen.fetchUserData is called (mount, pull to refresh, home tab) and
\* requests getUserDataWithCounts.
FetchUserData(c) ==
  /\ lcall[c].pc = "idle"
  /\ logins < MaxLogins
  /\ logins' = logins + 1
  /\ lcall' = [lcall EXCEPT ![c].pc = "fetching"]
  /\ UNCHANGED <<notLogin, clock, login, awards>>

\* getUserDataWithCounts: getDoc returns the user document.
UserDataRead(c) ==
  /\ lcall[c].pc = "fetching"
  /\ lcall' = [lcall EXCEPT ![c].pc = "gotUser",
                            ![c].lastLoginDate = login.lastLoginDate]
  /\ UNCHANGED <<notLogin, clock, login, awards, logins>>

\* getUserDataWithCounts returns and handleDailyLogin(userId, user) runs up to
\* its first await: a user whose lastLoginDate is of today gets nothing, else
\* awardXP(userId, 'daily_login') is called.
HandleDailyLogin(c) ==
  /\ lcall[c].pc = "gotUser"
  /\ lcall' = [lcall EXCEPT ![c].pc =
                  IF ToDateString(lcall[c].lastLoginDate) = ToDateString(clock)
                  THEN "refresh" ELSE "award",
                            ![c].day = ToDateString(clock)]
  /\ UNCHANGED <<notLogin, clock, login, awards, logins>>

\* awardXP settles: its update is applied, or it throws and fetchUserData
\* catches the error.
AwardDailyLogin(c, ok) ==
  /\ lcall[c].pc = "award"
  /\ IF ok
     THEN /\ awards' = [awards EXCEPT ![lcall[c].day] = @ + 1]
          /\ lcall' = [lcall EXCEPT ![c].pc = "stamp"]
     ELSE /\ lcall' = [lcall EXCEPT ![c] = IdleCall]
          /\ UNCHANGED awards
  /\ UNCHANGED <<notLogin, clock, login, logins>>

\* updateDoc({lastLoginDate: new Date(), dailyStreak, totalDaysActive:
\* increment(1)}) is applied; checkAndUnlockAchievements follows.
StampLogin(c) ==
  /\ lcall[c].pc = "stamp"
  /\ login' = [lastLoginDate |-> clock,
               totalDaysActive |-> login.totalDaysActive + 1]
  /\ lcall' = [lcall EXCEPT ![c].pc = "unlock"]
  /\ UNCHANGED <<notLogin, clock, awards, logins>>

\* checkAndUnlockAchievements returns and fetchUserData requests
\* getUserDataWithCounts again.
LoginUnlocked(c) ==
  /\ lcall[c].pc = "unlock"
  /\ lcall' = [lcall EXCEPT ![c].pc = "refresh"]
  /\ UNCHANGED <<notLogin, clock, login, awards, logins>>

\* The second getUserDataWithCounts returns; fetchUserData ends.
LoginRefreshed(c) ==
  /\ lcall[c].pc = "refresh"
  /\ lcall' = [lcall EXCEPT ![c] = IdleCall]
  /\ UNCHANGED <<notLogin, clock, login, awards, logins>>

\* Time passes, into the next day at midnight.
TimePasses ==
  /\ ToDateString(clock + 1) <= MaxDay
  /\ clock' = clock + 1
  /\ UNCHANGED <<notLogin, login, lcall, awards, logins>>

LoginNext ==
  \/ \E c \in Screens : FetchUserData(c)
  \/ \E c \in Screens : UserDataRead(c)
  \/ \E c \in Screens : HandleDailyLogin(c)
  \/ \E c \in Screens, ok \in BOOLEAN : AwardDailyLogin(c, ok)
  \/ \E c \in Screens : StampLogin(c)
  \/ \E c \in Screens : LoginUnlocked(c)
  \/ \E c \in Screens : LoginRefreshed(c)
  \/ TimePasses

\* The home screen's daily login; the rest of the application is idle.
LoginStart ==
  /\ QueueInit /\ CacheInit /\ LevelIdle /\ LedgerIdle
  /\ DispatchIdle /\ ListenerInit /\ LoginInit

LoginSpec == LoginStart /\ [][LoginNext]_vars

\* ================================================================ claims

IdsOf(q) == [i \in 1..Len(q) |-> q[i].id]
Ascending(q) == \A i, j \in 1..Len(q) : i < j => q[i].id < q[j].id
Finishing(s) == spc[s] \in {"saving", "stamping"}
FailedIn(l) == {l[i].id : i \in {j \in 1..Len(l) : ~l[j].ok}}

\* C1: in either service at most one drain pass runs at a time, and a
\* syncOfflineActions call made while syncInProgress is true returns without
\* starting a pass, reading or taking a snapshot of the queue, or dispatching
\* anything.
C1_SingleFlight ==
  /\ [](Cardinality(Running) <= 1 /\ (Running # {} => syncInProgress))
  /\ [][(lastCall' # "none" /\ syncInProgress)
          => /\ lastCall' = "busy"
             /\ UNCHANGED <<syncVars, sread, delivered, syncQueue, storage>>]_vars

\* C1 witness: a call arrived while a pass was suspended on a remote call and
\* returned at the guard.
C1_Witness == lastCall = "busy" /\ \E s \in SyncSlots : spc[s] = "dispatch"

\* C2 (as claimed): when the drain writes the queue back at the end of its
\* pass, every action that is in the queue but was not in the drain's
\* snapshot (it was enqueued while the drain was suspended) is still in the
\* queue afterwards.
C2_NoEnqueueLostToDrain ==
  [][\A s \in SyncSlots :
       (spc[s] = "dispatch" /\ spc'[s] = "saving")
         => \A i \in 1..Len(syncQueue) :
              syncQueue[i].id \notin Ids(snap[s]) => syncQueue[i].id \in Ids(syncQueue')]_vars

\* C3: in a pass of either service without a failed dispatch, the remote
\* service receives the actions the pass took from the queue, all of them, in
\* the order in which they were enqueued (ids grow in enqueue order).
C3_OrderPreserved ==
  \A s \in SyncSlots :
    (Finishing(s) /\ FailedIn(plog[s]) = {})
      => /\ IdsOf(plog[s]) = IdsOf(snap[s])
         /\ Ascending(plog[s])

\* C3 witness: a pass over two queued actions has dispatched both without a failure.
C3_Witness ==
  \E s \in SyncSlots : Finishing(s) /\ FailedIn(plog[s]) = {} /\ Len(plog[s]) >= 2

\* C4 (as claimed): once the pass has written the queue back, every action of
\* the snapshot whose dispatch failed is in the queue and in storage, in
\* snapshot order, and every action whose dispatch succeeded is in neither.
Succeeded(s) == {plog[s][i].id : i \in {j \in 1..Len(plog[s]) : plog[s][j].ok}}
InOrderIn(f, q) == SelectSeq(q, LAMBDA a : a.id \in Ids(f)) = f
C4_FailedKeptSucceededRemoved ==
  \A s \in SyncSlots :
    Finishing(s)
      => /\ InOrderIn(failed[s], syncQueue)
         /\ InOrderIn(failed[s], storage)
         /\ Succeeded(s) \cap (Ids(syncQueue) \cup Ids(storage)) = {}

\* C5 (as claimed): within one pass no action is dispatched after a dispatch
\* of that pass has failed.
C5_StopOnFirstFailure ==
  \A s \in SyncSlots : spc[s] = "dispatch" => FailedIn(plog[s]) = {}

\* C5 (amended): a failed dispatch does not end the pass: in either service
\* every action of the snapshot is dispatched once, in snapshot order, whether
\* or not an earlier dispatch failed.  OfflineService then writes back as the
\* queue exactly the actions whose dispatch failed, in snapshot order;
\* NetworkService asks for the removal of an action from the stored queue only
\* after its dispatch succeeded.
C5_SkipAndContinue ==
  [][\A s \in SyncSlots :
       /\ (~Finishing(s) /\ Finishing(s)')
            => /\ IdsOf(plog'[s]) = IdsOf(snap'[s])
               /\ service = "OfflineService"
                    => syncQueue' = SelectSeq(snap[s], LAMBDA a : a.id \in FailedIn(plog'[s]))
       /\ (spc[s] # "removeRead" /\ spc'[s] = "removeRead")
            => plog'[s][Len(plog'[s])] = [id |-> snap[s][idx[s]].id, ok |-> TRUE]]_vars

\* C5 witness: the first dispatch of a pass failed and the pass went on to
\* dispatch the second action.
C5_Witness ==
  \E s \in SyncSlots :
    Finishing(s) /\ Len(plog[s]) >= 2 /\ ~plog[s][1].ok /\ syncQueue # <<>>

\* C6 (as claimed): if the device ends up connected for good, every action
\* that is in the queue is eventually applied by the remote service.
C6_EventuallyDelivered ==
  (<>[]isOnline)
    => \A id \in 1..MaxActions : [](id \in Ids(syncQueue) => <>(id \in delivered))

\* C7 (as claimed): when the constructor's loadOfflineActions completes, no
\* action that an enqueue has put in the queue meanwhile is dropped from it,
\* and the actions that were persisted when the process started are still in
\* storage unless they were delivered.
C7_QueueSurvivesRestart ==
  [][(loadPc = "pending" /\ loadPc' = "done")
       => /\ Ids(syncQueue) \subseteq Ids(syncQueue')
          /\ Ids(loadRead) \subseteq (Ids(storage) \cup delivered)]_vars

\* C8 (as claimed): a facade call that queued an action resolves successfully
\* only if the write of the queue to storage succeeded.
C8_PersistFailureSurfaced ==
  \A p \in FacadeSlots :
    (fpc[p] = "done" /\ fact[p] # NoAction /\ fres[p] = "ok") => fstored[p]

\* C9: a facade call made offline, or whose direct remote call failed, appends
\* exactly one action to the queue and resolves normally; a call whose remote
\* call succeeded appends none; no call ends with an error.
C9_QueuedNotThrown ==
  /\ [](\A p \in FacadeSlots :
          fpc[p] = "done"
            => /\ fres[p] = "ok"
               /\ fremote[p] = "ok" => fact[p] = NoAction
               /\ fremote[p] \in {"offline", "failed"} => fact[p] # NoAction)
  /\ [][\A p \in FacadeSlots :
          /\ (fpc[p] # "saving" /\ fpc'[p] = "saving")
               => /\ syncQueue' = Append(syncQueue, fact'[p])
                  /\ fremote'[p] \in {"offline", "failed"}
          /\ (fpc[p] # "done" /\ fpc'[p] = "done") => syncQueue' = syncQueue]_vars

\* C9 witness: a call whose direct remote call failed has resolved normally
\* with its action queued.
C9_Witness ==
  \E p \in FacadeSlots :
    /\ fpc[p] = "done" /\ fremote[p] = "failed" /\ fres[p] = "ok"
    /\ fact[p].id \in Ids(syncQueue)

\* C10 (as claimed): a reported offline-to-online edge starts a pass when none
\* is running (a call that finds the queue empty has nothing to drain), starts
\* none when one is running, never schedules a second call, and an event that
\* is no such edge makes no call.
C10_EdgeStartsOnePass ==
  /\ lastEvent = "edge"
       => \/ lastCall = "started"
          \/ lastCall = "busy" /\ Running # {}
          \/ lastCall = "skipped" /\ syncQueue = <<>>
  /\ lastEvent = "nonedge" => lastCall = "none"
  /\ ~timerPending

\* C11 (as claimed): a cache read returns the stored data only if the time at
\* which it returns is before the entry's expiration; at or after the
\* expiration it is a miss.
C11_ExpiredIsMiss == cres.kind = "hit" => cres.at < cres.expiration

\* C13: for every experience value and every ascending level table whose
\* first threshold is 0, calculateLevel gives the greatest level whose
\* threshold the experience has reached.
LevelsReached(xp, table) == {L \in 1..Len(table) : table[L].xpRequired <= xp}
GreatestOf(S) == CHOOSE m \in S : \A k \in S : k <= m
C13_LevelIsMaxReached == llevel = GreatestOf(LevelsReached(lxp, ltable))

\* C13 witness: after a gain the experience lies strictly above the threshold
\* of a level above 1, and that level is derived.
C13_Witness ==
  /\ lprev < lxp
  /\ llevel >= 2
  /\ lxp > ltable[llevel].xpRequired

\* C14: when the experience does not decrease, the derived level does not
\* decrease.
C14_LevelMonotone == [][lxp' >= lxp => llevel' >= llevel]_vars

\* C14 witness: a gain of experience has raised the derived level.
C14_Witness == lprev < lxp /\ llevel > CalculateLevelOf(lprev, ltable)

\* C12 (as claimed): whenever no ledger operation is in flight, the stored
\* level is the level calculateLevel derives from the stored xp.
NoneInFlight == \A p \in Procs : proc[p].pc = "idle"
C12_StoredLevelDerived == NoneInFlight => doc.level = CalculateLevel(doc.xp)

\* C17 (as claimed): the stored xp is a natural number and no step makes it
\* smaller.
C17_XpNeverDecreases == [][doc.xp \in Nat /\ doc'.xp >= doc.xp]_vars

\* C15 (as claimed): a checkAndUnlockAchievements call that follows another
\* one given the same user object, with no other operation called in between,
\* leaves the stored xp and the stored achievements as the first left them.
SecondRunWrites(p) ==
  /\ proc[p].op = "checkAndUnlockAchievements"
  /\ proc[p].pc = "unlock"
  /\ proc[p].user = lastRun
  /\ proc'[p].pc # "unlock"
C15_UnlockIdempotent ==
  [][\A p \in Procs : SecondRunWrites(p) =>
        /\ doc'.xp = doc.xp
        /\ doc'.achievements = doc.achievements]_vars

\* C16 (as claimed): every achievement id is stored at most once, and the
\* xpReward of a stored achievement has been added to the xp exactly once.
C16_UnlockedOnce ==
  \A id \in AchIds :
    /\ doc.achievements[id] <= 1
    /\ doc.achievements[id] = 1 => credited[id] = 1

\* C18 (as claimed): when applyRetroactiveXP returns, having read the counters
\* getUserDataWithCounts corrected, every achievement whose threshold a
\* corrected counter reached is stored as unlocked.
RetroReturns(p) ==
  /\ proc[p].op = "applyRetroactiveXP"
  /\ proc[p].pc \in {"retroFlag", "retroWrite", "unlock", "level"}
  /\ proc'[p].pc = "idle"
  /\ Alone(p)
C18_ReconcileUnlocks ==
  [][\A p \in Procs : RetroReturns(p) =>
        \A id \in raised : Meets(proc[p].user, id) => doc'.achievements[id] > 0]_vars

\* C19 (as claimed): the user getUserDataWithCounts returns has the counters
\* of the posts collection as they were when it was queried and the level
\* derived from its xp, and the stored document holds the same counters and
\* level when the call returns.
CountsReturns(p) ==
  /\ proc[p].pc \in {"countsRead", "countsWrite"}
  /\ proc'[p].pc = "idle"
Queried(p) == IF proc[p].pc = "countsRead" THEN auth ELSE proc[p].counted
C19_ReturnsCorrected ==
  [][\A p \in Procs : CountsReturns(p) =>
        /\ view'.totalPosts = Queried(p).posts
        /\ view'.totalLikes = Queried(p).likes
        /\ view'.level = CalculateLevel(view'.xp)
        /\ doc'.totalPosts = view'.totalPosts
        /\ doc'.totalLikes = view'.totalLikes
        /\ doc'.level = view'.level]_vars

\* C20 (as claimed): applyRetroactiveXP, run on its own on a document that
\* already carries a retroactive credit and whose counters are those of that
\* credit, does not change the stored xp.
SecondRetroWrites(p) ==
  /\ proc[p].pc = "retroWrite"
  /\ proc'[p].pc # "retroWrite"
  /\ Alone(p)
  /\ proc[p].read = doc.xp
  /\ doc.retroactiveXPApplied
  /\ retroAt = {[posts |-> doc.totalPosts, likes |-> doc.totalLikes]}
C20_RetroCreditOnce ==
  [][\A p \in Procs : SecondRetroWrites(p) => doc'.xp = doc.xp]_vars

\* C21 (as claimed): a LIKE_POST action that carries the offline id of a post
\* whose CREATE_POST was dispatched before it, and that reaches the remote
\* service, likes the post the remote service created.
LastOutcome == outcomes'[Len(outcomes')]
CreatedFrom(a) ==
  {p \in posts : a.postId[1] = "offline" /\ p.origin = a.postId[2]}
Dispatched == Len(outcomes') = Len(outcomes) + 1
C21_DependentLikeResolves ==
  [][Dispatched /\ LastOutcome.action.type = "LIKE_POST"
       /\ LastOutcome.outcome # "network_error" =>
        \A p \in CreatedFrom(LastOutcome.action) :
           \E q \in posts' : q.id = p.id /\ q.liked]_vars

\* C22 (as claimed): an action whose target post the remote service does
\* not have is in the queue when the pass that dispatched it ends.
PassEnds == ppc = "dispatch" /\ ppc' = "idle"
InQueueAfter(a) == \E i \in 1..Len(pqueue') : pqueue'[i] = a
C22_UnresolvedStaysQueued ==
  [][PassEnds =>
       \A i \in 1..Len(outcomes') :
          outcomes'[i].outcome = "not_found" => InQueueAfter(outcomes'[i].action)]_vars

\* C28 (as claimed): an action whose type has no case in processOfflineAction
\* is in the queue when the pass that reached it ends.
C28_UnhandledStaysQueued ==
  [][PassEnds =>
       \A i \in 1..Len(outcomes') :
          outcomes'[i].outcome = "unhandled" => InQueueAfter(outcomes'[i].action)]_vars

\* C23 (as claimed): a reachability event calls every registered listener,
\* in registration order, and on a disconnected-to-connected edge it calls
\* syncOfflineActions.
C23_AllListenersNotified ==
  notified.event =>
    /\ notified.called = listeners
    /\ notified.edge => notified.synced

\* C24 (as claimed): a pass writes the last-sync timestamp only if none of its
\* dispatches failed.
Stamps(s) == spc[s] # "stamping" /\ spc'[s] = "stamping" /\ lastSync' # lastSync
C24_StampOnlyAfterCleanPass ==
  [][\A s \in SyncSlots : Stamps(s) => FailedIn(plog'[s]) = {}]_vars

\* C27 (as claimed): syncInProgress is set only while a pass is running: a
\* pass that ends, however it ends, leaves the flag cleared.  (Nothing but a
\* pass clears the flag, so a flag left set with no pass running stays set.)
C27_FlagClearedWhenPassEnds == syncInProgress => Running # {}

\* C30 (as claimed): an addToOfflineQueue whose read and write both succeed
\* leaves the stored queue as it was plus the new action, and a
\* removeFromOfflineQueue whose read and write both succeed leaves it as it was
\* minus the action with the given id.
AddWrites == apc = "reading" /\ apc' = "writing"
                /\ storage' = Append(aread, [id |-> nextId])
RemoveWrites(s) == spc[s] = "removeRead" /\ spc'[s] = "removeWrite"
                      /\ storage' = WithoutId(sread[s], snap[s][idx[s]].id)
C30_AddRemoveKeepOthers ==
  [][/\ AddWrites => storage' = Append(storage, [id |-> nextId])
     /\ \A s \in SyncSlots :
          RemoveWrites(s) => storage' = WithoutId(storage, snap[s][idx[s]].id)]_vars

\* C29 (as claimed): when getUserDataWithCounts writes its update after a
\* recount query failed, the stored counter of that recount is left as it was.
CountsWrites(p) == proc[p].pc = "countsWrite" /\ proc'[p].pc = "idle"
PostsRecountFailed(p) == proc[p].user.totalPosts # proc[p].counted.posts
LikesRecountFailed(p) == proc[p].user.totalLikes # proc[p].counted.likes
C29_FailedRecountKeepsCounters ==
  [][\A p \in Procs : CountsWrites(p) =>
        /\ PostsRecountFailed(p) => doc'.totalPosts = doc.totalPosts
        /\ LikesRecountFailed(p) => doc'.totalLikes = doc.totalLikes]_vars

\* C25: the level-up reported for a gain is TRUE exactly when the level of the
\* experience after the gain is greater than the level of the experience
\* before it; on the thresholds 0, 50, 150 a gain of 60 from 0 gives level 2
\* and a level-up.
ScenarioLevels ==
  <<[level |-> 1, xpRequired |-> 0], [level |-> 2, xpRequired |-> 50],
    [level |-> 3, xpRequired |-> 150]>>
C26_OneDailyLoginAward == \A d \in Days : awards[d] <= 1

====
